---------------------------- MODULE Spec2Model ----------------------------
(***************************************************************************)
(* Model of the ipd HTTP front end (src/http/http.go): the route table    *)
(* built by Server.Handler, the handlers, the response builders and the   *)
(* error adapter appHandler.ServeHTTP.                                     *)
(*                                                                         *)
(* Texts (paths, header values, messages, bodies) are sequences of        *)
(* tokens; the empty text is << >>.  Paths and port segments are          *)
(* sequences of one-character strings, so that filepath.Base and          *)
(* strconv.ParseUint are computed character by character.                 *)
(***************************************************************************)
EXTENDS Integers, Sequences, FiniteSets, TLC

VARIABLES
    s,      \* the Server: IPHeader, LookupAddr / LookupPort configured, db empty
    pc,     \* "idle" (no request in flight) or "done" (response finished)
    r,      \* the request being served
    env,    \* outcomes of the collaborators during this request
    fn,     \* name of the handler the router dispatched to
    e,      \* the *appError the handler returned: << >> is nil, <<err>> an error
    w       \* the http.ResponseWriter

vars == <<s, pc, r, env, fn, e, w>>

-----------------------------------------------------------------------------
(* Bounds *)

\* Longest trailing path segment of a /port/ request that is enumerated.
MaxSegLen == 5

-----------------------------------------------------------------------------
(* Program constants *)

jsonMediaType == <<"application/json">>
textMediaType == <<"text/plain">>

\* strconv.ParseUint(lastElement, 10, 16): the largest value of 16 bits.
MaxUint16 == 65535

\* The upper bound newPortResponse compares the port with.
MaxPort == 65355

StatusOK == 200
StatusBadRequest == 400
StatusNotFound == 404
StatusInternalServerError == 500

Nil == << >>
EmptyText == << >>

-----------------------------------------------------------------------------
(* Text helpers *)

Digits == <<"0", "1", "2", "3", "4", "5", "6", "7", "8", "9">>

IsDigit(c) == \E i \in 1..10 : Digits[i] = c

DigitVal(c) == (CHOOSE i \in 1..10 : Digits[i] = c) - 1

RECURSIVE FormatUint(_)
\* fmt's %d of an unsigned integer: its decimal digits.
FormatUint(n) ==
    IF n < 10 THEN <<Digits[n + 1]>>
    ELSE Append(FormatUint(n \div 10), Digits[(n % 10) + 1])

RECURSIVE ParseDigits(_, _, _)
\* The digit loop of strconv.ParseUint: syntax error on a non-digit, range
\* error (with the maximum value) as soon as the value exceeds 16 bits.
ParseDigits(str, i, n) ==
    IF i > Len(str) THEN [port |-> n, err |-> "nil"]
    ELSE IF ~IsDigit(str[i]) THEN [port |-> 0, err |-> "syntax"]
    ELSE IF n * 10 + DigitVal(str[i]) > MaxUint16
         THEN [port |-> MaxUint16, err |-> "range"]
    ELSE ParseDigits(str, i + 1, n * 10 + DigitVal(str[i]))

ParseUint(str) ==
    IF str = EmptyText THEN [port |-> 0, err |-> "syntax"]
    ELSE ParseDigits(str, 1, 0)

RECURSIVE TrimSlashes(_)
TrimSlashes(path) ==
    IF Len(path) > 0 /\ path[Len(path)] = "/"
    THEN TrimSlashes(SubSeq(path, 1, Len(path) - 1))
    ELSE path

RECURSIVE LastSlash(_, _)
LastSlash(path, i) ==
    IF i >= 1 /\ path[i] # "/" THEN LastSlash(path, i - 1) ELSE i

\* filepath.Base: the last element of the path, trailing slashes removed.
Base(path) ==
    IF path = EmptyText THEN <<".">>
    ELSE LET p == TrimSlashes(path)
             i == LastSlash(p, Len(p))
             b == IF i >= 1 THEN SubSeq(p, i + 1, Len(p)) ELSE p
         IN  IF b = EmptyText THEN <<"/">> ELSE b

\* strings.HasPrefix
HasPrefix(str, prefix) ==
    /\ Len(str) >= Len(prefix)
    /\ SubSeq(str, 1, Len(prefix)) = prefix


RECURSIVE SplitDots(_, _, _)
\* The fields of a dotted text, left to right.
SplitDots(str, i, cur) ==
    IF i > Len(str) THEN <<cur>>
    ELSE IF str[i] = "." THEN <<cur>> \o SplitDots(str, i + 1, EmptyText)
    ELSE SplitDots(str, i + 1, Append(cur, str[i]))

RECURSIVE ByteVal(_, _, _)
\* One decimal field of an IPv4 address: its value, or -1 when it is empty,
\* holds a non-digit or exceeds 255.
ByteVal(str, i, n) ==
    IF str = EmptyText THEN -1
    ELSE IF i > Len(str) THEN n
    ELSE IF ~IsDigit(str[i]) THEN -1
    ELSE IF n * 10 + DigitVal(str[i]) > 255 THEN -1
    ELSE ByteVal(str, i + 1, n * 10 + DigitVal(str[i]))

\* net.ParseIP on dotted decimal text: the four bytes, or << >> (nil).
ParseIP(str) ==
    LET f == SplitDots(str, 1, EmptyText)
    IN  IF Len(f) = 4 /\ \A k \in 1..4 : ByteVal(f[k], 1, 0) >= 0
        THEN [k \in 1..4 |-> ByteVal(f[k], 1, 0)]
        ELSE Nil

\* net.IP.String
IPString(ip) ==
    FormatUint(ip[1]) \o <<".">> \o FormatUint(ip[2]) \o <<".">>
        \o FormatUint(ip[3]) \o <<".">> \o FormatUint(ip[4])

\* iputil.ToDecimal: the address as a big-endian integer.
ToDecimal(ip) == ((ip[1] * 256 + ip[2]) * 256 + ip[3]) * 256 + ip[4]

\* net.SplitHostPort: RemoteAddr is host and port around a colon.
SplitHostPort(addr) ==
    IF addr.colon
    THEN [host |-> addr.host, err |-> Nil]
    ELSE [host |-> EmptyText, err |-> <<"missing port in address">>]

\* http.Header.Get: the value of the named header, the empty text if absent.
HeaderGet(req, name) ==
    IF name \in DOMAIN req.Header THEN req.Header[name] ELSE EmptyText

-----------------------------------------------------------------------------
(* ipFromRequest *)

IpFromRequestFallback(header, req) ==
    LET hv == HeaderGet(req, header)
        sp == SplitHostPort(req.RemoteAddr)
    IN  IF hv # EmptyText /\ ParseIP(hv) # Nil
        THEN [ip |-> ParseIP(hv), err |-> Nil]
        ELSE IF sp.err # Nil THEN [ip |-> Nil, err |-> sp.err]
        ELSE IF ParseIP(sp.host) = Nil
             THEN [ip |-> Nil, err |-> <<"could not parse IP: ">> \o sp.host]
        ELSE [ip |-> ParseIP(sp.host), err |-> Nil]

ipFromRequest(header, req) ==
    LET hv == HeaderGet(req, header)
        sp == SplitHostPort(req.RemoteAddr)
        remoteIP == IF hv = EmptyText THEN sp.host ELSE hv
    IN  IF hv = EmptyText /\ sp.err # Nil THEN [ip |-> Nil, err |-> sp.err]
        ELSE IF ParseIP(remoteIP) = Nil
             THEN [ip |-> Nil, err |-> <<"could not parse IP: ">> \o remoteIP]
        ELSE [ip |-> ParseIP(remoteIP), err |-> Nil]

-----------------------------------------------------------------------------
(* Collaborators: each either answers or fails, as env says *)

EmptyCountry == [Name |-> EmptyText, ISO |-> EmptyText]

\* database.Client.Country: the zero Country together with an error.
dbCountry(srv, en, ip) ==
    IF srv.dbEmpty \/ ~en.country THEN EmptyCountry
    ELSE [Name |-> <<"Elbonia">>, ISO |-> <<"EB">>]

\* database.Client.City
dbCity(srv, en, ip) ==
    IF srv.dbEmpty \/ ~en.city THEN EmptyText ELSE <<"Mudville">>

\* Server.LookupAddr, when configured
LookupAddr(en, ip) ==
    IF en.host THEN <<"host.example.">> ELSE EmptyText

\* Server.LookupPort: nil, or the probe's error
LookupPort(en, ip, port) ==
    IF en.probe THEN Nil ELSE <<"dial tcp: connection refused">>

-----------------------------------------------------------------------------
(* Response builders *)

EmptyResponse ==
    [IP |-> Nil, IPDecimal |-> 0, Country |-> EmptyText,
     CountryISO |-> EmptyText, City |-> EmptyText, Hostname |-> EmptyText]

NewResponseStrict(srv, en, req) ==
    LET a == ipFromRequest(srv.IPHeader, req)
    IN  IF a.err # Nil THEN [resp |-> EmptyResponse, err |-> a.err]
        ELSE IF ~en.country \/ ~en.city \/ (srv.hasLookupAddr /\ ~en.host)
             THEN [resp |-> EmptyResponse, err |-> <<"lookup failed">>]
        ELSE [resp |-> [IP         |-> a.ip,
                        IPDecimal  |-> ToDecimal(a.ip),
                        Country    |-> dbCountry(srv, en, a.ip).Name,
                        CountryISO |-> dbCountry(srv, en, a.ip).ISO,
                        City       |-> dbCity(srv, en, a.ip),
                        Hostname   |-> IF srv.hasLookupAddr
                                       THEN LookupAddr(en, a.ip)
                                       ELSE EmptyText],
              err |-> Nil]

newResponse(srv, en, req) ==
    LET a == ipFromRequest(srv.IPHeader, req)
    IN  IF a.err # Nil THEN [resp |-> EmptyResponse, err |-> a.err]
        ELSE [resp |-> [IP         |-> a.ip,
                        IPDecimal  |-> ToDecimal(a.ip),
                        Country    |-> dbCountry(srv, en, a.ip).Name,
                        CountryISO |-> dbCountry(srv, en, a.ip).ISO,
                        City       |-> dbCity(srv, en, a.ip),
                        Hostname   |-> IF srv.hasLookupAddr
                                       THEN LookupAddr(en, a.ip)
                                       ELSE EmptyText],
              err |-> Nil]

newPortResponse(srv, en, req) ==
    LET lastElement == Base(req.Path)
        p == ParseUint(lastElement)
        a == ipFromRequest(srv.IPHeader, req)
    IN  IF p.err # "nil" \/ p.port < 1 \/ p.port > MaxPort
        THEN [resp |-> [IP |-> Nil, Port |-> p.port, Reachable |-> FALSE],
              err |-> <<"invalid port: ">> \o FormatUint(p.port)]
        ELSE IF a.err # Nil
        THEN [resp |-> [IP |-> Nil, Port |-> p.port, Reachable |-> FALSE],
              err |-> a.err]
        ELSE [resp |-> [IP |-> a.ip, Port |-> p.port,
                        Reachable |-> LookupPort(en, a.ip, p.port) = Nil],
              err |-> Nil]

-----------------------------------------------------------------------------
(* appError and its constructors *)

internalServerError(err) ==
    [Error |-> err, Message |-> <<"Internal server error">>,
     Code |-> StatusInternalServerError, ContentType |-> EmptyText]

badRequest(err) ==
    [Error |-> err, Message |-> EmptyText,
     Code |-> StatusBadRequest, ContentType |-> EmptyText]

notFound(err) ==
    [Error |-> err, Message |-> EmptyText,
     Code |-> StatusNotFound, ContentType |-> EmptyText]

AsJSON(err) == [err EXCEPT !.ContentType = jsonMediaType]

WithMessage(err, message) == [err EXCEPT !.Message = message]

IsJSON(err) == err.ContentType = jsonMediaType

-----------------------------------------------------------------------------
(* http.ResponseWriter *)

\* status 0: the header is not sent yet.  header is the Content-Type of the
\* header map, ctype the Content-Type that went out with the status line.
\* writers records who wrote to the response: the handler, the adapter.
NewWriter ==
    [status |-> 0, header |-> EmptyText, ctype |-> EmptyText,
     body |-> EmptyText, writers |-> {}]

SetContentType(rw, ct) == [rw EXCEPT !.header = ct]

\* A second WriteHeader is ignored by net/http.
WriteHeader(rw, by, code) ==
    IF rw.status = 0
    THEN [rw EXCEPT !.status = code, !.ctype = rw.header,
                    !.writers = @ \cup {by}]
    ELSE [rw EXCEPT !.writers = @ \cup {by}]

Write(rw, by, data) ==
    LET w1 == WriteHeader(rw, by, StatusOK)
    IN  [w1 EXCEPT !.body = @ \o data]

-----------------------------------------------------------------------------
(* encoding/json *)

Field(name, text) ==
    IF text = EmptyText THEN EmptyText
    ELSE <<",\"", name, "\":\"">> \o text \o <<"\"">>

\* json.Marshal(Response): optional fields are omitted when empty.
MarshalResponse(resp) ==
    <<"{\"ip\":\"">> \o IPString(resp.IP) \o <<"\"", ",\"ip_decimal\":">>
        \o FormatUint(resp.IPDecimal)
        \o Field("country", resp.Country)
        \o Field("country_iso", resp.CountryISO)
        \o Field("city", resp.City)
        \o Field("hostname", resp.Hostname)
        \o <<"}">>

\* json.Marshal(PortResponse)
MarshalPortResponse(resp) ==
    <<"{\"ip\":\"">> \o IPString(resp.IP) \o <<"\"", ",\"port\":">>
        \o FormatUint(resp.Port) \o <<",\"reachable\":">>
        \o (IF resp.Reachable THEN <<"true">> ELSE <<"false">>) \o <<"}">>

\* json.Marshal(struct{Error string `json:"error"`}{message})
MarshalError(message) == <<"{\"error\":\"">> \o message \o <<"\"}">>

-----------------------------------------------------------------------------
(* Handlers: each returns the writer as it leaves it and the *appError *)

CLIHandler(srv, rw, req, en) ==
    LET a == ipFromRequest(srv.IPHeader, req)
    IN  IF a.err # Nil
        THEN [w |-> rw, e |-> <<internalServerError(a.err)>>]
        ELSE [w |-> Write(rw, "handler", IPString(a.ip) \o <<"\n">>),
              e |-> Nil]

CLICountryHandler(srv, rw, req, en) ==
    LET n == newResponse(srv, en, req)
    IN  IF n.err # Nil
        THEN [w |-> rw, e |-> <<internalServerError(n.err)>>]
        ELSE [w |-> Write(rw, "handler", n.resp.Country \o <<"\n">>),
              e |-> Nil]

CLICountryISOHandler(srv, rw, req, en) ==
    LET n == newResponse(srv, en, req)
    IN  IF n.err # Nil
        THEN [w |-> rw, e |-> <<internalServerError(n.err)>>]
        ELSE [w |-> Write(rw, "handler", n.resp.CountryISO \o <<"\n">>),
              e |-> Nil]

CLICityHandler(srv, rw, req, en) ==
    LET n == newResponse(srv, en, req)
    IN  IF n.err # Nil
        THEN [w |-> rw, e |-> <<internalServerError(n.err)>>]
        ELSE [w |-> Write(rw, "handler", n.resp.City \o <<"\n">>),
              e |-> Nil]

\* json.Marshal of a Response cannot fail: that branch is not reachable.
JSONHandler(srv, rw, req, en) ==
    LET n == newResponse(srv, en, req)
    IN  IF n.err # Nil
        THEN [w |-> rw, e |-> <<AsJSON(internalServerError(n.err))>>]
        ELSE [w |-> Write(SetContentType(rw, jsonMediaType), "handler",
                          MarshalResponse(n.resp)),
              e |-> Nil]

PortHandler(srv, rw, req, en) ==
    LET n == newPortResponse(srv, en, req)
    IN  IF n.err # Nil
        THEN [w |-> rw,
              e |-> <<AsJSON(WithMessage(badRequest(n.err),
                        <<"Invalid port: ">> \o FormatUint(n.resp.Port)))>>]
        ELSE [w |-> Write(SetContentType(rw, jsonMediaType), "handler",
                          MarshalPortResponse(n.resp)),
              e |-> Nil]

\* en.tmpl: "ok"; "parse", template.ParseFiles fails; "exec", t.Execute
\* fails before it writes; "partial", t.Execute fails after it wrote the
\* beginning of the page.
DefaultHandler(srv, rw, req, en) ==
    LET n == newResponse(srv, en, req)
        page == <<"<html>", req.Host>> \o MarshalResponse(n.resp)
                    \o <<IF srv.hasLookupPort THEN "port" ELSE "noport",
                         "</html>">>
    IN  IF n.err # Nil
        THEN [w |-> rw, e |-> <<internalServerError(n.err)>>]
        ELSE IF en.tmpl = "parse"
        THEN [w |-> rw,
              e |-> <<internalServerError(<<"template: parse error">>)>>]
        ELSE IF en.tmpl = "exec"
        THEN [w |-> rw,
              e |-> <<internalServerError(<<"template: exec error">>)>>]
        ELSE IF en.tmpl = "partial"
        THEN [w |-> Write(rw, "handler", <<"<html>", req.Host>>),
              e |-> <<internalServerError(<<"template: exec error">>)>>]
        ELSE [w |-> Write(rw, "handler", page), e |-> Nil]

NotFoundHandlerAlwaysText(srv, rw, req, en) ==
    [w |-> rw,
     e |-> <<WithMessage(notFound(Nil), <<"404 page not found">>)>>]

NotFoundHandler(srv, rw, req, en) ==
    LET err == WithMessage(notFound(Nil), <<"404 page not found">>)
    IN  [w |-> rw,
         e |-> IF HeaderGet(req, "Accept") = jsonMediaType
               THEN <<AsJSON(err)>> ELSE <<err>>]

-----------------------------------------------------------------------------
(* appHandler.ServeHTTP, applied to what the handler fn returned *)

ServeHTTP(h) ==
    IF h.e = Nil THEN h.w
    ELSE LET err == h.e[1]
             message == IF IsJSON(err) THEN MarshalError(err.Message)
                        ELSE err.Message
             w1 == IF err.ContentType # EmptyText
                   THEN SetContentType(h.w, err.ContentType) ELSE h.w
             w2 == WriteHeader(w1, "adapter", err.Code)
         IN  Write(w2, "adapter", message)

-----------------------------------------------------------------------------
(* Router *)

RECURSIVE UntilSlash(_, _)
UntilSlash(str, i) ==
    IF i > Len(str) \/ str[i] = "/" THEN EmptyText
    ELSE <<str[i]>> \o UntilSlash(str, i + 1)

\* useragent.Parse: the product is what precedes the first slash.
ParseUserAgent(ua) == [Product |-> UntilSlash(ua, 1)]

cliMatcher(req) ==
    ParseUserAgent(HeaderGet(req, "User-Agent")).Product \in
        {<<"curl">>, <<"HTTPie">>, <<"Wget">>, <<"fetch libfetch">>,
         <<"Go">>, <<"Go-http-client">>, <<"ddclient">>}

\* router.Route / RoutePrefix, with Header and MatcherFunc applied
Route(method, path, handler) ==
    [method |-> method, path |-> path, prefix |-> FALSE,
     headers |-> << >>, matcher |-> "none", handler |-> handler]

RoutePrefix(method, path, handler) ==
    [Route(method, path, handler) EXCEPT !.prefix = TRUE]

Header(route, name, value) ==
    [route EXCEPT !.headers = Append(@, [name |-> name, value |-> value])]

MatcherFunc(route, f) == [route EXCEPT !.matcher = f]

\* route.match: method, path rule, every header matcher and the predicate
Match(route, req) ==
    /\ req.Method = route.method
    /\ IF route.prefix THEN HasPrefix(req.Path, route.path)
       ELSE req.Path = route.path
    /\ \A i \in 1..Len(route.headers) :
           HeaderGet(req, route.headers[i].name) = route.headers[i].value
    /\ route.matcher = "cliMatcher" => cliMatcher(req)

\* router.Handler: the first route that matches, else the not-found handler
Dispatch(routes, req) ==
    IF \E i \in 1..Len(routes) : Match(routes[i], req)
    THEN routes[CHOOSE i \in 1..Len(routes) :
                    /\ Match(routes[i], req)
                    /\ \A j \in 1..(i - 1) : ~Match(routes[j], req)].handler
    ELSE "NotFoundHandler"

PathRoot == <<"/">>
PathJSON == <<"/", "j", "s", "o", "n">>
PathIP == <<"/", "i", "p">>
PathCountry == <<"/", "c", "o", "u", "n", "t", "r", "y">>
PathCountryISO == PathCountry \o <<"-", "i", "s", "o">>
PathCity == <<"/", "c", "i", "t", "y">>
PathPort == <<"/", "p", "o", "r", "t", "/">>

HandlerCLIFirst(srv) ==
    << MatcherFunc(Route("GET", PathRoot, "CLIHandler"), "cliMatcher"),
       Header(Route("GET", PathRoot, "JSONHandler"), "Accept", jsonMediaType),
       Route("GET", PathJSON, "JSONHandler"),
       Header(Route("GET", PathRoot, "CLIHandler"), "Accept", textMediaType),
       Route("GET", PathIP, "CLIHandler") >>
    \o (IF ~srv.dbEmpty
        THEN << Route("GET", PathCountry, "CLICountryHandler"),
                Route("GET", PathCountryISO, "CLICountryISOHandler"),
                Route("GET", PathCity, "CLICityHandler") >>
        ELSE << >>)
    \o << Route("GET", PathRoot, "DefaultHandler") >>
    \o (IF srv.hasLookupPort
        THEN << RoutePrefix("GET", PathPort, "PortHandler") >>
        ELSE << >>)

\* Server.Handler: the route table, in registration order
Handler(srv) ==
    << Header(Route("GET", PathRoot, "JSONHandler"), "Accept", jsonMediaType),
       Route("GET", PathJSON, "JSONHandler"),
       MatcherFunc(Route("GET", PathRoot, "CLIHandler"), "cliMatcher"),
       Header(Route("GET", PathRoot, "CLIHandler"), "Accept", textMediaType),
       Route("GET", PathIP, "CLIHandler") >>
    \o (IF ~srv.dbEmpty
        THEN << Route("GET", PathCountry, "CLICountryHandler"),
                Route("GET", PathCountryISO, "CLICountryISOHandler"),
                Route("GET", PathCity, "CLICityHandler") >>
        ELSE << >>)
    \o << Route("GET", PathRoot, "DefaultHandler") >>
    \o (IF srv.hasLookupPort
        THEN << RoutePrefix("GET", PathPort, "PortHandler") >>
        ELSE << >>)

-----------------------------------------------------------------------------
(* Inputs *)

IPHeaderName == "X-Real-IP"

Servers ==
    [IPHeader : {"", IPHeaderName}, hasLookupAddr : BOOLEAN,
     hasLookupPort : BOOLEAN, dbEmpty : BOOLEAN]

GoodAddr == <<"1", "0", ".", "0", ".", "0", ".", "7">>
OtherAddr == <<"1", "2", "7", ".", "0", ".", "0", ".", "1">>
BadAddr == <<"1", "0", ".", "0", ".", "0", ".", "2", "5", "6">>

\* Candidate trailing segments of a /port/ path
SegCandidates ==
    { << >>, <<"0">>, <<"1">>, <<"8", "0">>, <<"0", "0", "8", "0">>,
      <<"8", "0", "/">>, <<"8", "a">>, <<"-", "1">>, <<"a", "b", "c">>,
      <<"6", "5", "3", "5", "5">>, <<"6", "5", "3", "5", "6">>,
      <<"6", "5", "5", "3", "5">>, <<"6", "5", "5", "3", "6">>,
      <<"7", "0", "0", "0", "0">>, <<"1", "0", "0", "0", "0", "0">>,
      <<"0", "0", "0", "0", "0", "8", "0">> }

Segments == {seg \in SegCandidates : Len(seg) <= MaxSegLen}

Paths ==
    {PathRoot, PathJSON, PathIP, PathCountry, PathCountryISO, PathCity,
     <<"/", "p", "o", "r", "t">>, <<"/", "n", "o", "n", "e">>}
    \cup {PathPort \o seg : seg \in Segments}

Accepts == {EmptyText, jsonMediaType, textMediaType}

UserAgents ==
    {EmptyText, <<"curl", "/", "7.68.0">>, <<"Mozilla", "/", "5.0 (X11)">>}

RemoteAddrs ==
    {[host |-> GoodAddr, colon |-> TRUE], [host |-> BadAddr, colon |-> TRUE],
     [host |-> GoodAddr, colon |-> FALSE]}

Headers ==
    {[n \in {"Accept", "User-Agent", IPHeaderName} |->
         CASE n = "Accept" -> a [] n = "User-Agent" -> u [] OTHER -> x] :
     a \in Accepts, u \in UserAgents, x \in {EmptyText, OtherAddr, BadAddr}}

Requests ==
    [Method : {"GET", "POST"}, Path : Paths, Header : Headers,
     RemoteAddr : RemoteAddrs, Host : {"ifconfig.example"}]

AllOk == [country |-> TRUE, city |-> TRUE, host |-> TRUE, probe |-> TRUE,
          tmpl |-> "ok"]

\* The collaborators a handler reaches, each succeeding or failing
Envs(name) ==
    CASE name \in {"JSONHandler", "CLICountryHandler",
                   "CLICountryISOHandler", "CLICityHandler"} ->
            {[AllOk EXCEPT !.country = c, !.city = t, !.host = h] :
             c \in BOOLEAN, t \in BOOLEAN, h \in BOOLEAN}
      [] name = "DefaultHandler" ->
            {[AllOk EXCEPT !.country = c, !.city = t, !.host = h, !.tmpl = m] :
             c \in BOOLEAN, t \in BOOLEAN, h \in BOOLEAN,
             m \in {"ok", "parse", "exec", "partial"}}
      [] name = "PortHandler" ->
            {[AllOk EXCEPT !.probe = b] : b \in BOOLEAN}
      [] OTHER -> {AllOk}

NoRequest ==
    [Method |-> "", Path |-> EmptyText,
     Header |-> [n \in {"Accept", "User-Agent", IPHeaderName} |-> EmptyText],
     RemoteAddr |-> [host |-> EmptyText, colon |-> FALSE], Host |-> ""]

-----------------------------------------------------------------------------
(* The server *)

Init ==
    /\ s \in Servers
    /\ pc = "idle"
    /\ r = NoRequest
    /\ env = AllOk
    /\ fn = ""
    /\ e = Nil
    /\ w = NewWriter

\* What one request leaves behind: h is what the handler fn returned, and
\* appHandler.ServeHTTP writes the error of h, if any.
Respond(name, req, en, h) ==
    /\ r' = req
    /\ env' = en
    /\ fn' = name
    /\ e' = h.e
    /\ w' = ServeHTTP(h)

\* One action per handler: a request the router dispatches to it, served
\* from dispatch to the finished response.
ServeJSON ==
    /\ pc = "idle"
    /\ \E req \in Requests :
          /\ Dispatch(Handler(s), req) = "JSONHandler"
          /\ \E en \in Envs("JSONHandler") :
                Respond("JSONHandler", req, en,
                        JSONHandler(s, NewWriter, req, en))
    /\ pc' = "done"
    /\ s' = s

ServeCLI ==
    /\ pc = "idle"
    /\ \E req \in Requests :
          /\ Dispatch(Handler(s), req) = "CLIHandler"
          /\ \E en \in Envs("CLIHandler") :
                Respond("CLIHandler", req, en,
                        CLIHandler(s, NewWriter, req, en))
    /\ pc' = "done"
    /\ s' = s

ServeCLICountry ==
    /\ pc = "idle"
    /\ \E req \in Requests :
          /\ Dispatch(Handler(s), req) = "CLICountryHandler"
          /\ \E en \in Envs("CLICountryHandler") :
                Respond("CLICountryHandler", req, en,
                        CLICountryHandler(s, NewWriter, req, en))
    /\ pc' = "done"
    /\ s' = s

ServeCLICountryISO ==
    /\ pc = "idle"
    /\ \E req \in Requests :
          /\ Dispatch(Handler(s), req) = "CLICountryISOHandler"
          /\ \E en \in Envs("CLICountryISOHandler") :
                Respond("CLICountryISOHandler", req, en,
                        CLICountryISOHandler(s, NewWriter, req, en))
    /\ pc' = "done"
    /\ s' = s

ServeCLICity ==
    /\ pc = "idle"
    /\ \E req \in Requests :
          /\ Dispatch(Handler(s), req) = "CLICityHandler"
          /\ \E en \in Envs("CLICityHandler") :
                Respond("CLICityHandler", req, en,
                        CLICityHandler(s, NewWriter, req, en))
    /\ pc' = "done"
    /\ s' = s

ServeDefault ==
    /\ pc = "idle"
    /\ \E req \in Requests :
          /\ Dispatch(Handler(s), req) = "DefaultHandler"
          /\ \E en \in Envs("DefaultHandler") :
                Respond("DefaultHandler", req, en,
                        DefaultHandler(s, NewWriter, req, en))
    /\ pc' = "done"
    /\ s' = s

ServePort ==
    /\ pc = "idle"
    /\ \E req \in Requests :
          /\ Dispatch(Handler(s), req) = "PortHandler"
          /\ \E en \in Envs("PortHandler") :
                Respond("PortHandler", req, en,
                        PortHandler(s, NewWriter, req, en))
    /\ pc' = "done"
    /\ s' = s

ServeNotFound ==
    /\ pc = "idle"
    /\ \E req \in Requests :
          /\ Dispatch(Handler(s), req) = "NotFoundHandler"
          /\ \E en \in Envs("NotFoundHandler") :
                Respond("NotFoundHandler", req, en,
                        NotFoundHandler(s, NewWriter, req, en))
    /\ pc' = "done"
    /\ s' = s

\* The response is complete; nothing of the request is kept.
Finish ==
    /\ pc = "done"
    /\ pc' = "idle"
    /\ r' = NoRequest
    /\ env' = AllOk
    /\ fn' = ""
    /\ e' = Nil
    /\ w' = NewWriter
    /\ s' = s

Next ==
    \/ ServeJSON
    \/ ServeCLI
    \/ ServeCLICountry
    \/ ServeCLICountryISO
    \/ ServeCLICity
    \/ ServeDefault
    \/ ServePort
    \/ ServeNotFound
    \/ Finish

Spec == Init /\ [][Next]_vars

-----------------------------------------------------------------------------
(* Vocabulary of the properties *)

Done == pc = "done"

Accept == HeaderGet(r, "Accept")

\* The indices of the routes of the table that the request matches
Matching == {i \in 1..Len(Handler(s)) : Match(Handler(s)[i], r)}

\* The text after /port/ in the request path
Segment == SubSeq(r.Path, Len(PathPort) + 1, Len(r.Path))

IsDecimal(str) == str # EmptyText /\ \A i \in 1..Len(str) : IsDigit(str[i])

RECURSIVE DecimalValue(_)
\* The number a decimal text denotes
DecimalValue(str) ==
    IF str = EmptyText THEN 0
    ELSE DecimalValue(SubSeq(str, 1, Len(str) - 1)) * 10
             + DigitVal(str[Len(str)])

ValidPort == IsDecimal(Segment) /\ DecimalValue(Segment) \in 1..65535

\* The text the caller's address is read from, and whether it is an address
AddrText ==
    IF HeaderGet(r, s.IPHeader) # EmptyText THEN HeaderGet(r, s.IPHeader)
    ELSE r.RemoteAddr.host

AddrParses ==
    /\ HeaderGet(r, s.IPHeader) # EmptyText \/ r.RemoteAddr.colon
    /\ ParseIP(AddrText) # Nil

NeedsResponse ==
    fn \in {"JSONHandler", "CLICountryHandler", "CLICountryISOHandler",
            "CLICityHandler", "DefaultHandler"}

NeedsAddress == NeedsResponse \/ fn \in {"CLIHandler", "PortHandler"}

ErrorEnvelope(message) == <<"{\"error\":\"">> \o message \o <<"\"}">>

-----------------------------------------------------------------------------
(* C1 *)

\* C1, as stated: for every pair of routes R1 registered before R2 that the
\* request both matches, the handler invoked is R1's.
C1_EveryEarlierOfAPairWins ==
    Done => \A i \in Matching : \A j \in Matching :
                i < j => fn = Handler(s)[i].handler

\* C1, amended: the handler invoked is that of the earliest registered route
\* the request matches, so no later matching route ever takes precedence over
\* an earlier one.  GET / with Accept: application/json goes to JSONHandler
\* also for a command-line User-Agent, and GET / matching none of the
\* JSON-Accept, cliMatcher and text/plain-Accept routes goes to
\* DefaultHandler.
C1_EarliestMatchWins ==
    Done =>
      /\ Matching # {} =>
           \E i \in Matching :
              /\ \A j \in Matching : i <= j
              /\ fn = Handler(s)[i].handler
      /\ (r.Method = "GET" /\ r.Path = PathRoot /\ Accept = jsonMediaType)
            => fn = "JSONHandler"
      /\ (r.Method = "GET" /\ r.Path = PathRoot /\ Accept # jsonMediaType
            /\ Accept # textMediaType /\ ~cliMatcher(r))
            => fn = "DefaultHandler"

C1_Witness ==
    /\ Done
    /\ r.Method = "GET" /\ r.Path = PathRoot /\ Accept = jsonMediaType
    /\ cliMatcher(r)
    /\ Cardinality(Matching) = 3
    /\ fn = "JSONHandler"

-----------------------------------------------------------------------------
(* C2 *)

\* C2: a decimal trailing segment P of GET /port/<P> is accepted (the probe
\* is run and a port-reachability document returned, no error) if and only
\* if 1 <= P <= 65535.  Stated for callers whose address resolves.
C2_AcceptedIffInRange ==
    (Done /\ fn = "PortHandler" /\ IsDecimal(Segment) /\ AddrParses) =>
        ((e = Nil /\ w.status = StatusOK) <=> ValidPort)

-----------------------------------------------------------------------------
(* C3 *)

\* C3: when the port handler rejects the trailing segment (non-numeric, zero
\* or out of range), the response is a 400 whose message names the value the
\* client supplied in the path.
C3_MessageNamesRejectedValue ==
    (Done /\ fn = "PortHandler" /\ e # Nil /\ ~ValidPort) =>
        /\ w.status = StatusBadRequest
        /\ e[1].Message = <<"Invalid port: ">> \o Segment

-----------------------------------------------------------------------------
(* C4 *)

\* C4: for every request exactly one of the handler and the adapter writes
\* to the response: never both, never neither.
C4_ExactlyOneWriter ==
    Done => (w.writers = {"handler"} \/ w.writers = {"adapter"})

-----------------------------------------------------------------------------
(* C5 *)

\* C5: a request that matches no registered route gets status 404; with
\* Accept equal to application/json the body is {"error":"404 page not
\* found"} with Content-Type application/json, otherwise the body is the
\* text 404 page not found without the JSON envelope.
C5_NotFound ==
    (Done /\ Matching = {}) =>
        /\ fn = "NotFoundHandler"
        /\ w.status = StatusNotFound
        /\ IF Accept = jsonMediaType
           THEN /\ w.body = <<"{\"error\":\"", "404 page not found", "\"}">>
                /\ w.ctype = jsonMediaType
           ELSE /\ w.body = <<"404 page not found">>
                /\ w.ctype # jsonMediaType

C5_Witness ==
    /\ Done
    /\ r.Method = "GET" /\ r.Path = PathCountry /\ s.dbEmpty
    /\ Accept = jsonMediaType
    /\ w.status = StatusNotFound
    /\ w.ctype = jsonMediaType

-----------------------------------------------------------------------------
(* C6 *)

\* C6: a failure to resolve the caller's address is answered with 500 on
\* every endpoint that needs the address, the port endpoint with a valid
\* port included; never with 400 or an invalid-port message.
C6_AddressFailureIsInternalError ==
    (Done /\ NeedsAddress /\ ~AddrParses /\ (fn = "PortHandler" => ValidPort))
        => /\ w.status = StatusInternalServerError
           /\ e # Nil
           /\ ~HasPrefix(e[1].Message, <<"Invalid port: ">>)

-----------------------------------------------------------------------------
(* C7 *)

\* C7: when the handler returns an error, the body is {"error": message}
\* with Content-Type application/json if the request's Accept equals
\* application/json and the raw message otherwise, on every route, and no
\* part of a success body precedes it.
C7_ErrorBodyFollowsAccept ==
    (Done /\ e # Nil) =>
        IF Accept = jsonMediaType
        THEN /\ w.body = ErrorEnvelope(e[1].Message)
             /\ w.ctype = jsonMediaType
        ELSE w.body = e[1].Message

-----------------------------------------------------------------------------
(* C8 *)

\* C8: newResponse fails exactly when the caller's address does not parse,
\* whatever the country, city and reverse-hostname lookups do; a failed
\* lookup empties its own fields only and leaves ip, ip_decimal and the
\* other lookups' fields as they are when every lookup succeeds.
C8_LookupFailuresDegrade ==
    (Done /\ NeedsResponse) =>
        LET n == newResponse(s, env, r)
            full == newResponse(s, AllOk, r)
        IN  /\ (n.err = Nil) <=> AddrParses
            /\ fn = "JSONHandler" => ((e = Nil) <=> AddrParses)
            /\ AddrParses =>
                 /\ n.resp.IP = ParseIP(AddrText)
                 /\ n.resp.IPDecimal = full.resp.IPDecimal
                 /\ n.resp.Country =
                      IF env.country THEN full.resp.Country ELSE EmptyText
                 /\ n.resp.CountryISO =
                      IF env.country THEN full.resp.CountryISO ELSE EmptyText
                 /\ n.resp.City =
                      IF env.city THEN full.resp.City ELSE EmptyText
                 /\ n.resp.Hostname =
                      IF env.host THEN full.resp.Hostname ELSE EmptyText
                 /\ fn = "JSONHandler" => w.body = MarshalResponse(n.resp)
                 /\ fn = "CLICityHandler" =>
                      w.body = n.resp.City \o <<"\n">>

C8_Witness ==
    /\ Done
    /\ fn = "JSONHandler"
    /\ AddrParses
    /\ ~env.country /\ env.city /\ ~env.host
    /\ s.hasLookupAddr /\ ~s.dbEmpty
    /\ e = Nil
    /\ w.status = StatusOK

-----------------------------------------------------------------------------
(* C9 *)

\* C9: GET /port/<P> with a valid port and a parseable caller address
\* returns a port-reachability document whose reachable flag is true exactly
\* when the probe returned no error; a probe failure is never an error
\* response.
C9_ProbeOutcomeIsReachableFlag ==
    (Done /\ fn = "PortHandler" /\ ValidPort /\ AddrParses) =>
        /\ e = Nil
        /\ w.status = StatusOK
        /\ w.body =
             <<"{\"ip\":\"">> \o IPString(ParseIP(AddrText))
                 \o <<"\"", ",\"port\":">>
                 \o FormatUint(DecimalValue(Segment))
                 \o <<",\"reachable\":",
                      IF env.probe THEN "true" ELSE "false", "}">>

-----------------------------------------------------------------------------
(* C10 *)

\* C10: a non-empty trusted header is the only source of the caller's
\* address: the request succeeds exactly when the header value parses, also
\* when the transport remote address is a parseable address; the remote
\* address is consulted only when the header value is empty.
C10_NoFallbackFromHeader ==
    (Done /\ fn \in {"CLIHandler", "JSONHandler", "CLICountryHandler",
                     "CLICountryISOHandler", "CLICityHandler"}) =>
        LET hv == HeaderGet(r, s.IPHeader)
            from == IF hv # EmptyText THEN hv ELSE r.RemoteAddr.host
        IN  /\ (e = Nil) <=>
                  /\ hv = EmptyText => r.RemoteAddr.colon
                  /\ ParseIP(from) # Nil
            /\ (e = Nil /\ fn = "CLIHandler") =>
                  w.body = IPString(ParseIP(from)) \o <<"\n">>

C10_Witness ==
    /\ Done
    /\ fn = "CLIHandler"
    /\ HeaderGet(r, s.IPHeader) = BadAddr
    /\ r.RemoteAddr = [host |-> GoodAddr, colon |-> TRUE]
    /\ e # Nil
    /\ w.status = StatusInternalServerError

=============================================================================
